---------------------------- MODULE Spec2Model ----------------------------
(***************************************************************************)
(* treeson: directory / GitHub tree listing to nested JSON.                *)
(*                                                                         *)
(* Strings are sequences of character codes, so that startswith('.'),      *)
(* lower(), split('/') and Python's string ordering are computed and not   *)
(* looked up.  A Python dict is an insertion-ordered sequence of           *)
(* [k, v] pairs; a value is tagged "list" (a list of strings) or "dict"    *)
(* (a nested dict).  json.dumps keeps the insertion order, so equality of  *)
(* two dict values is equality of the JSON text.                           *)
(***************************************************************************)
EXTENDS Integers, Sequences, FiniteSets, TLC

\* ------------------------------------------------------------------ bounds
MaxEntries  == 3    \* entries created below the target directory
MaxFsDepth  == 2    \* nesting of created entries below the target
MaxDepthArg == 1    \* largest --max-depth value tried
MaxListing  == 3    \* records in the remote listing

\* ----------------------------------------------------------------- strings
FILES          == <<102, 105, 108, 101, 115>>                          \* "files"
n_git          == <<46, 103, 105, 116>>                                \* ".git"
n_pycache      == <<95, 95, 112, 121, 99, 97, 99, 104, 101, 95, 95>>   \* "__pycache__"
n_DS_Store     == <<46, 68, 83, 95, 83, 116, 111, 114, 101>>           \* ".DS_Store"
n_node_modules == <<110, 111, 100, 101, 95, 109, 111, 100, 117, 108, 101, 115>> \* "node_modules"
n_venv         == <<118, 101, 110, 118>>                               \* "venv"
n_dotvenv      == <<46, 118, 101, 110, 118>>                           \* ".venv"
n_idea         == <<46, 105, 100, 101, 97>>                            \* ".idea"
n_pytest_cache == <<46, 112, 121, 116, 101, 115, 116, 95, 99, 97, 99, 104, 101>> \* ".pytest_cache"
n_mypy_cache   == <<46, 109, 121, 112, 121, 95, 99, 97, 99, 104, 101>> \* ".mypy_cache"
n_tox          == <<46, 116, 111, 120>>                                \* ".tox"
n_dist         == <<100, 105, 115, 116>>                               \* "dist"
n_build        == <<98, 117, 105, 108, 100>>                           \* "build"
n_egg_info     == <<42, 46, 101, 103, 103, 45, 105, 110, 102, 111>>    \* "*.egg-info"

DEFAULT_IGNORES ==
    { n_git, n_pycache, n_DS_Store, n_node_modules, n_venv, n_dotvenv, n_idea,
      n_pytest_cache, n_mypy_cache, n_tox, n_dist, n_build, n_egg_info }

\* names used as inputs
n_a_txt      == <<97, 46, 116, 120, 116>>                        \* "a.txt"
n_B_txt      == <<66, 46, 116, 120, 116>>                        \* "B.txt"
n_A_txt      == <<65, 46, 116, 120, 116>>                        \* "A.txt"
n_env        == <<46, 101, 110, 118>>                            \* ".env"
n_y          == <<121>>                                          \* "y"
n_Z          == <<90>>                                           \* "Z"
n_lnk        == <<108, 110, 107>>                                \* "lnk"
n_fifo       == <<102, 105, 102, 111>>                           \* "fifo"
n_src        == <<115, 114, 99>>                                 \* "src"
n_main_go    == <<109, 97, 105, 110, 46, 103, 111>>              \* "main.go"
n_sub        == <<115, 117, 98>>                                 \* "sub"
p_src_main_go == <<115, 114, 99, 47, 109, 97, 105, 110, 46, 103, 111>> \* "src/main.go"
p_files_x     == <<102, 105, 108, 101, 115, 47, 120>>                  \* "files/x"
p_git_config  == <<46, 103, 105, 116, 47, 99, 111, 110, 102, 105, 103>> \* ".git/config"
p_src_y_a_txt == <<115, 114, 99, 47, 121, 47, 97, 46, 116, 120, 116>>  \* "src/y/a.txt"

Dot   == 46   \* '.'
Slash == 47   \* '/'

\* str.startswith('.')
startswith_dot(s) == Len(s) >= 1 /\ s[1] = Dot

\* str.lower() on ASCII: 'A'..'Z' (65..90) become 'a'..'z'
lower(s) == [i \in 1..Len(s) |-> IF s[i] >= 65 /\ s[i] <= 90 THEN s[i] + 32 ELSE s[i]]

\* Python's  a < b  on strings: lexicographic on code points, a proper
\* prefix is smaller.
RECURSIVE StrLess(_, _)
StrLess(a, b) ==
    IF b = <<>> THEN FALSE
    ELSE IF a = <<>> THEN TRUE
    ELSE IF a[1] # b[1] THEN a[1] < b[1]
    ELSE StrLess(Tail(a), Tail(b))

\* str.split(sep): the pieces between separators (never empty as a list)
RECURSIVE split(_, _)
split(s, sep) ==
    IF \A i \in 1..Len(s) : s[i] # sep THEN <<s>>
    ELSE LET j == CHOOSE i \in 1..Len(s) :
                      s[i] = sep /\ \A h \in 1..(i - 1) : s[h] # sep
         IN  <<SubSeq(s, 1, j - 1)>> \o split(SubSeq(s, j + 1, Len(s)), sep)

\* ------------------------------------------------------------------- dicts
ListVal(s) == [tag |-> "list", items |-> s]
DictVal(d) == [tag |-> "dict", items |-> d]

\* {"files": []}
EmptyNode == << [k |-> FILES, v |-> ListVal(<<>>)] >>

\* k in d
HasKey(d, k) == \E i \in 1..Len(d) : d[i].k = k
KeyIndex(d, k) == CHOOSE i \in 1..Len(d) : d[i].k = k
\* d[k]
DictGet(d, k) == d[KeyIndex(d, k)].v
\* d[k] = v : an existing key keeps its position, a new key goes last
DictSet(d, k, v) ==
    IF HasKey(d, k) THEN [d EXCEPT ![KeyIndex(d, k)].v = v]
    ELSE Append(d, [k |-> k, v |-> v])

\* ------------------------------------------------------------------ config
\* Optional[int]: <<>> is None, <<n>> is n
None == <<>>

\* should_ignore without the hidden-name test
should_ignore_no_hidden(config, name) ==
    name \in config.ignores

\* TreesonConfig.should_ignore
should_ignore(config, name) ==
    IF ~config.include_hidden /\ startswith_dot(name) THEN TRUE
    ELSE name \in config.ignores


VARIABLES
    mode,      \* "local": the target is a path; "remote": it is a URL
    config,    \* the TreesonConfig main() builds from the arguments
    fs,        \* the file system at and below the target: path -> [kind, perm]
    out,       \* what the last run of main() left: exit code, stdout, stderr
    prevOut,   \* what the run before it left
    tree,      \* remote: the listing resp.json().get("tree", [])
    root,      \* remote: the dict the builder loop fills
    idx,       \* remote: index of the next listing record
    rpc        \* remote: "loop", "returned" or "raised"

vars == <<mode, config, fs, out, prevOut, tree, root, idx, rpc>>

\* ------------------------------------------------------------- file system
\* A path is the sequence of names below the target; <<>> is the target.
name_of(path) == path[Len(path)]
parent_of(path) == SubSeq(path, 1, Len(path) - 1)

\* Path.exists, Path.is_dir, Path.is_file (they follow symbolic links)
exists(path)  == path \in DOMAIN fs
is_dir(path)  == fs[path].kind = "dir"
is_file(path) == fs[path].kind = "file"
\* stat() of the entry fails with EACCES (a link into an unsearchable
\* directory): Path.is_dir and Path.is_file re-raise it as PermissionError
stat_denied(path) == fs[path].perm = "nostat"
\* listing the directory fails with EACCES
list_denied(path) == fs[path].perm = "noread"

Children(path) ==
    { p \in DOMAIN fs : Len(p) = Len(path) + 1 /\ parent_of(p) = path }

\* Path.iterdir yields the children "in arbitrary order" (on tmpfs the order
\* entries were created in, reversed).  The order is one of ScanOrders:
\* ascending or descending by name, which between them give any two
\* children both relative orders.
ScanOrders == {"asc", "desc"}

ScanBefore(p, q, scan) ==
    IF scan = "asc" THEN StrLess(name_of(p), name_of(q))
    ELSE StrLess(name_of(q), name_of(p))

RECURSIVE InScanOrder(_, _)
InScanOrder(S, scan) ==
    IF S = {} THEN <<>>
    ELSE LET m == CHOOSE p \in S : \A q \in S \ {p} : ScanBefore(p, q, scan)
         IN  <<m>> \o InScanOrder(S \ {m}, scan)

iterdir(path, scan) == InScanOrder(Children(path), scan)

\* the sort key  (not x.is_dir(), x.name.lower())  compared as Python
\* compares tuples: False < True, then the strings
KeyLess(x, y) ==
    LET a == ~is_dir(x)
        b == ~is_dir(y)
    IN  \/ ~a /\ b
        \/ a = b /\ StrLess(lower(name_of(x)), lower(name_of(y)))

\* sorted(items, key=...): stable, so items with equal keys keep the order
\* they were listed in
RECURSIVE sorted(_)
sorted(items) ==
    IF items = <<>> THEN <<>>
    ELSE LET s == sorted(SubSeq(items, 1, Len(items) - 1))
             x == items[Len(items)]
             n == Cardinality({ i \in 1..Len(s) : ~KeyLess(x, s[i]) })
         IN  SubSeq(s, 1, n) \o <<x>> \o SubSeq(s, n + 1, Len(s))

\* ------------------------------------------------------------- dir_to_json
\* The outcome of a call: the exception that left it ("none": it returned),
\* the returned dict, the warnings printed to stderr and the directories
\* whose listing was asked for.
Returned(val, stderr, listed) ==
    [exc |-> "none", val |-> val, stderr |-> stderr, listed |-> listed]
Raised(exc, stderr, listed) ==
    [exc |-> exc, val |-> <<>>, stderr |-> stderr, listed |-> listed]

\* the depth test off by one: > for >=
depth_reached_late(config_, current_depth) ==
    config_.max_depth # None /\ current_depth > config_.max_depth[1]

\* if config.max_depth is not None and current_depth >= config.max_depth
depth_reached(config_, current_depth) ==
    config_.max_depth # None /\ current_depth >= config_.max_depth[1]

RECURSIVE dir_to_json(_, _, _, _)
RECURSIVE for_items(_, _, _, _, _, _)

\* the loop  for item in items  from items[i] on; acc is the outcome so far
for_items(items, i, acc, config_, current_depth, scan) ==
    IF i > Len(items) THEN acc
    ELSE
      LET item == items[i]
          name == name_of(item)
          next(a) == for_items(items, i + 1, a, config_, current_depth, scan)
      IN
        IF should_ignore(config_, name) THEN next(acc)
        ELSE IF stat_denied(item) THEN
            \* except PermissionError: warn, continue
            next([acc EXCEPT !.stderr = Append(@, item)])
        ELSE IF is_file(item) THEN
            \* result["files"].append(item.name)
            IF DictGet(acc.val, FILES).tag = "list" THEN
                next([acc EXCEPT !.val = DictSet(@, FILES,
                        ListVal(Append(DictGet(@, FILES).items, name)))])
            ELSE
                Raised("AttributeError", acc.stderr, acc.listed)
        ELSE IF is_dir(item) THEN
            \* result[item.name] = dir_to_json(item, config, current_depth + 1)
            LET sub == dir_to_json(item, config_, current_depth + 1, scan)
            IN  IF sub.exc = "none" THEN
                    next([val    |-> DictSet(acc.val, name, DictVal(sub.val)),
                          exc    |-> "none",
                          stderr |-> acc.stderr \o sub.stderr,
                          listed |-> acc.listed \o sub.listed])
                ELSE
                    Raised(sub.exc, acc.stderr \o sub.stderr,
                           acc.listed \o sub.listed)
        ELSE next(acc)

dir_to_json(path, config_, current_depth, scan) ==
    IF ~exists(path) THEN Raised("DirectoryNotFoundError", <<>>, <<>>)
    ELSE IF ~is_dir(path) THEN Raised("TreesonError", <<>>, <<>>)
    ELSE IF depth_reached(config_, current_depth) THEN
        Returned(EmptyNode, <<>>, <<>>)
    ELSE IF list_denied(path) THEN
        \* path.iterdir() raises PermissionError
        Returned(EmptyNode, <<path>>, <<path>>)
    ELSE IF \E c \in Children(path) : stat_denied(c) THEN
        \* the sort key's x.is_dir() raises PermissionError
        Returned(EmptyNode, <<path>>, <<path>>)
    ELSE
        for_items(sorted(iterdir(path, scan)), 1,
                  Returned(EmptyNode, <<>>, <<path>>),
                  config_, current_depth, scan)


\* -------------------------------------------------------------------- main
\* the arguments main() parses: -i PATTERN..., --include-hidden, --max-depth
IgnoreArgs == { {}, {n_y} }
DepthArgs  == {None} \cup { <<d>> : d \in 0..MaxDepthArg }

\* config = TreesonConfig(ignores=DEFAULT_IGNORES.union(args.ignore), ...)
Configs ==
    { [ignores |-> DEFAULT_IGNORES \cup ig, include_hidden |-> h, max_depth |-> d] :
        ig \in IgnoreArgs, h \in BOOLEAN, d \in DepthArgs }

NotRun == [exit |-> -1, exc |-> "none", stdout |-> <<>>, stderr |-> <<>>, listed |-> <<>>]

\* main() with the except clauses returning 0
Exit_always_zero(r) ==
    IF r.exc = "none"
    THEN [exit |-> 0, exc |-> "none", stdout |-> <<r.val>>,
          stderr |-> r.stderr, listed |-> r.listed]
    ELSE [exit |-> 0, exc |-> r.exc, stdout |-> <<>>,
          stderr |-> r.stderr, listed |-> r.listed]

\* what main() leaves after the call r of dir_to_json / github_repo_to_json:
\* print(output) and return 0, or the except clauses: message to stderr and
\* return 1 (TreesonError and any other Exception alike).  stderr holds the
\* paths warned about; the error line printed by an except clause is exc.
\* The run writes to stdout (no --output) and is not interrupted.
Exit(r) ==
    IF r.exc = "none"
    THEN [exit |-> 0, exc |-> "none", stdout |-> <<r.val>>,
          stderr |-> r.stderr, listed |-> r.listed]
    ELSE [exit |-> 1, exc |-> r.exc, stdout |-> <<>>,
          stderr |-> r.stderr, listed |-> r.listed]

\* the target of a local run: missing, a plain file, a directory, a
\* directory that cannot be listed
Targets ==
    { <<>>,
      (<<>> :> [kind |-> "file", perm |-> "ok"]),
      (<<>> :> [kind |-> "dir",  perm |-> "ok"]),
      (<<>> :> [kind |-> "dir",  perm |-> "noread"]) }

InitLocal ==
    /\ mode = "local"
    /\ config \in Configs
    /\ fs \in Targets
    /\ out = NotRun
    /\ prevOut = NotRun
    /\ tree = <<>>
    /\ root = <<>>
    /\ idx = 1
    /\ rpc = "none"

\* the environment creates an entry below the target before main() runs
FileNames   == { n_a_txt, n_B_txt, n_A_txt, n_env }
DirNames    == { n_y, n_Z, FILES, n_git }
DeniedNames == { n_Z }

CanCreate(parent, name) ==
    /\ mode = "local"
    /\ out = NotRun
    /\ parent \in DOMAIN fs
    /\ fs[parent].kind = "dir"
    /\ fs[parent].perm = "ok"
    /\ Len(parent) < MaxFsDepth
    /\ Cardinality(DOMAIN fs) <= MaxEntries
    /\ Append(parent, name) \notin DOMAIN fs

Create(parent, name, kind, perm) ==
    /\ CanCreate(parent, name)
    /\ fs' = (Append(parent, name) :> [kind |-> kind, perm |-> perm]) @@ fs
    /\ UNCHANGED <<mode, config, out, prevOut, tree, root, idx, rpc>>

Touch ==
    \E parent \in DOMAIN fs, name \in FileNames : Create(parent, name, "file", "ok")

Mkdir ==
    \E parent \in DOMAIN fs, name \in DirNames : Create(parent, name, "dir", "ok")

\* a directory the user may not list
MkdirDenied ==
    \E parent \in DOMAIN fs, name \in DeniedNames :
        Create(parent, name, "dir", "noread")

\* a symbolic link into a directory the user may not search
Symlink ==
    \E parent \in DOMAIN fs : Create(parent, n_lnk, "dir", "nostat")

\* an entry that is neither a file nor a directory
Mkfifo ==
    \E parent \in DOMAIN fs : Create(parent, n_fifo, "other", "ok")

\* main() on a path target: data = dir_to_json(target_path, config).
\* It runs, and then runs once more on the unchanged directory.
MainLocal ==
    /\ mode = "local"
    /\ prevOut = NotRun
    /\ \E scan \in ScanOrders :
          out' = Exit(dir_to_json(<<>>, config, 0, scan))
    /\ prevOut' = out
    /\ UNCHANGED <<mode, config, fs, tree, root, idx, rpc>>

NextLocal == Touch \/ Mkdir \/ MkdirDenied \/ Symlink \/ Mkfifo \/ MainLocal

SpecLocal == InitLocal /\ [][NextLocal]_vars


\* ------------------------------------------------------ github_repo_to_json
\* `current` is a reference into root: the keys that lead to it from root.
\* The value a key sequence leads to; root itself for <<>>.
RECURSIVE GetAt(_, _)
GetAt(v, keys) ==
    IF keys = <<>> THEN v ELSE GetAt(DictGet(v.items, keys[1]), Tail(keys))

\* v with the value that keys leads to replaced by w
RECURSIVE SetAt(_, _, _)
SetAt(v, keys, w) ==
    IF keys = <<>> THEN w
    ELSE DictVal(DictSet(v.items, keys[1],
                         SetAt(DictGet(v.items, keys[1]), Tail(keys), w)))

\* x in c, for a dict (its keys) or a list (its elements)
Contains(c, x) ==
    IF c.tag = "dict" THEN HasKey(c.items, x)
    ELSE \E i \in 1..Len(c.items) : c.items[i] = x

Step(exc, rootv, cur) == [exc |-> exc, rootv |-> rootv, cur |-> cur]

\* for part in path_parts[:-1]: create the node if absent, move into it.
\* Subscripting a list with a string raises TypeError.
RECURSIVE navigate(_, _, _, _)
navigate(rootv, cur, parts, i) ==
    IF i > Len(parts) - 1 THEN Step("none", rootv, cur)
    ELSE
      LET current == GetAt(rootv, cur)
          part == parts[i]
      IN  IF current.tag # "dict" THEN Step("TypeError", rootv, cur)
          ELSE IF ~Contains(current, part)
          THEN navigate(SetAt(rootv, cur,
                              DictVal(DictSet(current.items, part, DictVal(EmptyNode)))),
                        Append(cur, part), parts, i + 1)
          ELSE navigate(rootv, Append(cur, part), parts, i + 1)

\* the blob branch: create "files" lazily, then append
add_blob(rootv, cur, final_part) ==
    LET current == GetAt(rootv, cur)
    IN  IF current.tag # "dict" THEN Step("TypeError", rootv, cur)
        ELSE
          LET withFiles == IF ~Contains(current, FILES)
                           THEN DictSet(current.items, FILES, ListVal(<<>>))
                           ELSE current.items
              files == DictGet(withFiles, FILES)
          IN  IF files.tag # "list"
              THEN Step("AttributeError", SetAt(rootv, cur, DictVal(withFiles)), cur)
              ELSE Step("none",
                        SetAt(rootv, cur,
                              DictVal(DictSet(withFiles, FILES,
                                              ListVal(Append(files.items, final_part))))),
                        cur)

\* the tree branch without its  not in  test: it assigns a fresh node
add_tree_overwrite(rootv, cur, final_part) ==
    LET current == GetAt(rootv, cur)
    IN  IF current.tag # "dict" THEN Step("TypeError", rootv, cur)
        ELSE Step("none",
                  SetAt(rootv, cur,
                        DictVal(DictSet(current.items, final_part, DictVal(EmptyNode)))),
                  cur)

\* the tree branch: create the node only if the key is absent
add_tree(rootv, cur, final_part) ==
    LET current == GetAt(rootv, cur)
    IN  IF Contains(current, final_part) THEN Step("none", rootv, cur)
        ELSE IF current.tag # "dict" THEN Step("TypeError", rootv, cur)
        ELSE Step("none",
                  SetAt(rootv, cur,
                        DictVal(DictSet(current.items, final_part, DictVal(EmptyNode)))),
                  cur)

\* one iteration of  for node in tree
build_node(rootv, node, config_) ==
    LET path_parts == split(node.path, Slash)
    IN  IF \E j \in 1..Len(path_parts) : should_ignore(config_, path_parts[j])
        THEN Step("none", rootv, <<>>)
        ELSE
          LET nav == navigate(rootv, <<>>, path_parts, 1)
              final_part == path_parts[Len(path_parts)]
          IN  IF nav.exc # "none" THEN nav
              ELSE IF node.type = "blob" THEN add_blob(nav.rootv, nav.cur, final_part)
              ELSE IF node.type = "tree" THEN add_tree(nav.rootv, nav.cur, final_part)
              ELSE nav

\* the records a listing is made of
Records ==
    { [path |-> p_src_main_go, type |-> "blob"],
      [path |-> n_src,         type |-> "tree"],
      [path |-> n_a_txt,       type |-> "blob"],
      [path |-> FILES,         type |-> "tree"],
      [path |-> p_files_x,     type |-> "blob"],
      [path |-> p_git_config,  type |-> "blob"],
      [path |-> p_src_y_a_txt, type |-> "blob"],
      [path |-> n_sub,         type |-> "commit"] }

Listings == UNION { [1..n -> Records] : n \in 0..MaxListing }

InitRemote ==
    /\ mode = "remote"
    /\ config \in Configs
    /\ fs = <<>>
    /\ out = NotRun
    /\ prevOut = NotRun
    /\ tree \in Listings
    /\ root = <<>>
    /\ idx = 1
    /\ rpc = "fetch"

\* requests is missing, or the request times out, fails or answers an error
FetchFails ==
    /\ mode = "remote" /\ rpc = "fetch"
    /\ \E exc \in {"ImportError", "GitHubAPIError"} :
          out' = Exit(Raised(exc, <<>>, <<>>))
    /\ rpc' = "raised"
    /\ UNCHANGED <<mode, config, fs, prevOut, tree, root, idx>>

\* tree = resp.json().get("tree", []);  root = {}
Fetch ==
    /\ mode = "remote" /\ rpc = "fetch"
    /\ rpc' = "loop"
    /\ root' = <<>>
    /\ idx' = 1
    /\ UNCHANGED <<mode, config, fs, out, prevOut, tree>>

\* one iteration of the builder loop; an exception leaves through main()
BuildNode ==
    /\ mode = "remote" /\ rpc = "loop"
    /\ idx <= Len(tree)
    /\ LET r == build_node(DictVal(root), tree[idx], config)
       IN  /\ root' = r.rootv.items
           /\ IF r.exc = "none"
              THEN /\ idx' = idx + 1
                   /\ UNCHANGED <<rpc, out>>
              ELSE /\ rpc' = "raised"
                   /\ out' = Exit(Raised(r.exc, <<>>, <<>>))
                   /\ UNCHANGED idx
    /\ UNCHANGED <<mode, config, fs, prevOut, tree>>

\* return root, and main() prints it
BuildReturn ==
    /\ mode = "remote" /\ rpc = "loop"
    /\ idx > Len(tree)
    /\ rpc' = "returned"
    /\ out' = Exit(Returned(root, <<>>, <<>>))
    /\ UNCHANGED <<mode, config, fs, prevOut, tree, root, idx>>

NextRemote == FetchFails \/ Fetch \/ BuildNode \/ BuildReturn

SpecRemote == InitRemote /\ [][NextRemote]_vars

Init == InitLocal \/ InitRemote
Next == NextLocal \/ NextRemote
Spec == Init /\ [][Next]_vars


\* ------------------------------------------------------- reading a result
\* The data model of the output: at a Tree Node "files" maps to a list of
\* strings and every other key maps to a Tree Node.
RECURSIVE IsTreeNode(_)
IsTreeNode(d) ==
    \A i \in 1..Len(d) :
        IF d[i].k = FILES THEN d[i].v.tag = "list"
        ELSE d[i].v.tag = "dict" /\ IsTreeNode(d[i].v.items)

\* the printed data of the last run, when main() returned 0
Succeeded == out.exit = 0
Data == out.stdout[1]

\* the nested dict reached from d by the keys of path, if there is one
RECURSIVE HasNodeAt(_, _)
HasNodeAt(d, path) ==
    \/ path = <<>>
    \/ /\ HasKey(d, path[1])
       /\ DictGet(d, path[1]).tag = "dict"
       /\ HasNodeAt(DictGet(d, path[1]).items, Tail(path))

RECURSIVE NodeAt(_, _)
NodeAt(d, path) ==
    IF path = <<>> THEN d ELSE NodeAt(DictGet(d, path[1]).items, Tail(path))

\* the "files" list of a node (empty when the key is absent or no list)
FilesOf(d) ==
    IF HasKey(d, FILES) /\ DictGet(d, FILES).tag = "list"
    THEN DictGet(d, FILES).items ELSE <<>>

\* how often the file at path p is listed in the node of its own directory
TimesListed(d, p) ==
    IF HasNodeAt(d, parent_of(p))
    THEN LET f == FilesOf(NodeAt(d, parent_of(p)))
         IN  Cardinality({ i \in 1..Len(f) : f[i] = name_of(p) })
    ELSE 0

\* the key sequences of all nested dicts of d, <<>> for d itself
RECURSIVE NodePaths(_)
NodePaths(d) ==
    {<<>>} \cup UNION { { <<d[i].k>> \o q : q \in NodePaths(d[i].v.items) } :
                        i \in { j \in 1..Len(d) : d[j].v.tag = "dict" } }

\* all names in "files" lists, over all nodes
RECURSIVE TotalListed(_)
RECURSIVE SumListed(_, _)
SumListed(d, i) ==
    IF i > Len(d) THEN 0
    ELSE (IF d[i].v.tag = "dict" THEN TotalListed(d[i].v.items) ELSE 0)
         + SumListed(d, i + 1)
TotalListed(d) == Len(FilesOf(d)) + SumListed(d, 1)

\* the ignore predicate as the specification words it
Hidden(n) == Len(n) > 0 /\ Head(n) = 46
Ignored(n) == (~config.include_hidden /\ Hidden(n)) \/ n \in config.ignores

IsPrefix(a, b) == Len(a) <= Len(b) /\ SubSeq(b, 1, Len(a)) = a


\* -------------------------------------------------------------- properties

\* C1: whatever the names are, a returned tree has, at every node, "files"
\* mapped to a list of file names (never a nested node, never a directory's
\* name) and every other key mapped to a Tree Node.
C1_DataModel ==
    Succeeded =>
        /\ IsTreeNode(Data)
        /\ mode = "local" =>
              \A q \in NodePaths(Data) :
                  \A i \in 1..Len(FilesOf(NodeAt(Data, q))) :
                      LET p == Append(q, FilesOf(NodeAt(Data, q))[i])
                      IN  exists(p) /\ is_file(p)

\* C2: the root node either producer returns always has a "files" key.
C2_RootHasFiles ==
    Succeeded => HasKey(Data, FILES)

\* C3: a subdirectory whose listing is denied is omitted from its parent's
\* node (the readable files beside it are listed, main() returns 0).
C3_DeniedSubdirOmitted ==
    (mode = "local" /\ out # NotRun /\ exists(<<>>) /\ is_dir(<<>>)) =>
        \A p \in DOMAIN fs :
            (p # <<>> /\ is_dir(p) /\ list_denied(p)) =>
                Succeeded /\ ~HasNodeAt(Data, p)


\* nesting depth of a tree, the root at depth 0
RECURSIVE Depth(_)
RECURSIVE MaxChildDepth(_, _)
MaxChildDepth(d, i) ==
    IF i > Len(d) THEN 0
    ELSE LET rest == MaxChildDepth(d, i + 1)
             here == IF d[i].v.tag = "dict" THEN 1 + Depth(d[i].v.items) ELSE 0
         IN  IF here > rest THEN here ELSE rest
Depth(d) == MaxChildDepth(d, 1)

\* C4: with max_depth = d >= 0 a returned tree is at most d deep, every
\* node at depth d is exactly {"files": []}, no file whose directory lies d
\* or more levels below the target is listed, and with d = 0 the result is
\* {"files": []} and no directory was listed.
C4_DepthBound ==
    /\ (mode = "local" /\ Succeeded /\ config.max_depth # None) =>
        LET d == config.max_depth[1]
        IN  /\ Depth(Data) <= d
            /\ \A q \in NodePaths(Data) : Len(q) = d => NodeAt(Data, q) = EmptyNode
            /\ \A p \in DOMAIN fs :
                  (p # <<>> /\ is_file(p) /\ Len(p) - 1 >= d) => TimesListed(Data, p) = 0
    /\ (mode = "local" /\ out # NotRun /\ exists(<<>>) /\ is_dir(<<>>)
            /\ config.max_depth = <<0>>) =>
          (Succeeded /\ Data = EmptyNode /\ out.listed = <<>>)

\* a run cut by the limit: a subdirectory with a file in it has its node,
\* and the limit is 1
C4_Witness ==
    /\ mode = "local" /\ Succeeded /\ config.max_depth = <<1>>
    /\ \E p \in DOMAIN fs :
          Len(p) = 2 /\ is_file(p) /\ ~Ignored(p[2]) /\ HasNodeAt(Data, parent_of(p))

\* no listed file name and no subdirectory key is an ignored name
RECURSIVE NoIgnoredName(_)
NoIgnoredName(d) ==
    \A i \in 1..Len(d) :
        IF d[i].v.tag = "list"
        THEN \A j \in 1..Len(d[i].v.items) : ~Ignored(d[i].v.items[j])
        ELSE ~Ignored(d[i].k) /\ NoIgnoredName(d[i].v.items)

\* the record has no ignored path segment
Kept(node) ==
    \A j \in 1..Len(split(node.path, Slash)) : ~Ignored(split(node.path, Slash)[j])

\* C5: no "files" entry and no subdirectory key of the output is an ignored
\* name; no ignored directory is listed; in the builder every node stems
\* from a record none of whose path segments is ignored.
C5_FilterSound ==
    /\ Succeeded => NoIgnoredName(Data)
    /\ \A i \in 1..Len(out.listed) :
          \A j \in 1..Len(out.listed[i]) : ~Ignored(out.listed[i][j])
    /\ mode = "remote" =>
          /\ NoIgnoredName(root)
          /\ \A q \in NodePaths(root) \ {<<>>} :
                \E i \in 1..Len(tree) :
                    Kept(tree[i]) /\ IsPrefix(q, split(tree[i].path, Slash))

\* hidden names are included, the ignored directory .git beside them is not
C5_Witness ==
    /\ mode = "local" /\ Succeeded /\ config.include_hidden
    /\ <<n_git>> \in DOMAIN fs /\ <<n_env>> \in DOMAIN fs
    /\ TimesListed(Data, <<n_env>>) = 1

RECURSIVE Preserved(_, _)
Preserved(old, new) ==
    \A i \in 1..Len(old) :
        /\ HasKey(new, old[i].k)
        /\ LET w == DictGet(new, old[i].k)
           IN  /\ w.tag = old[i].v.tag
               /\ IF w.tag = "list" THEN IsPrefix(old[i].v.items, w.items)
                  ELSE Preserved(old[i].v.items, w.items)

SrcExample ==
    << [path |-> p_src_main_go, type |-> "blob"], [path |-> n_src, type |-> "tree"] >>
SrcExpected ==
    << [k |-> n_src, v |-> DictVal(<< [k |-> FILES, v |-> ListVal(<<n_main_go>>)] >>)] >>

\* C7: no step of the builder removes or replaces a node or a file name
\* already there; [src/main.go blob, src tree] gives {"src": {"files": ["main.go"]}}.
C7_NeverOverwrites ==
    /\ [][mode = "remote" => Preserved(root, root')]_vars
    /\ []((mode = "remote" /\ rpc = "returned" /\ tree = SrcExample) =>
             (root = SrcExpected /\ out.exit = 0 /\ Data = SrcExpected))

\* the tree record for src came after src/main.go and the builder returned
C7_Witness ==
    mode = "remote" /\ rpc = "returned" /\ tree = SrcExample /\ root = SrcExpected

\* C8: with no hidden and no ignored names, no depth limit and everything
\* readable, the names listed over all nodes are as many as the files of the
\* tree, each file listed once in the node of its own directory.
C8_Complete ==
    ( /\ mode = "local" /\ out # NotRun
      /\ exists(<<>>) /\ is_dir(<<>>)
      /\ config.max_depth = None
      /\ \A p \in DOMAIN fs :
            /\ fs[p].perm = "ok"
            /\ p # <<>> => (~Hidden(name_of(p)) /\ name_of(p) \notin config.ignores) )
    => /\ Succeeded
       /\ TotalListed(Data) = Cardinality({ p \in DOMAIN fs : is_file(p) })
       /\ \A p \in DOMAIN fs : is_file(p) => TimesListed(Data, p) = 1

\* the directory at path was listed by the run: it has a node, the depth
\* limit did not cut it and its listing was not denied
Traversed(path) ==
    /\ HasNodeAt(Data, path)
    /\ ~depth_reached(config, Len(path))
    /\ ~list_denied(path)

\* C9: a child whose type cannot be determined is skipped alone: beside it
\* every file that is not ignored is listed and every directory that is not
\* ignored has its node.
C9_ChildIsolated ==
    (mode = "local" /\ Succeeded) =>
        \A c \in DOMAIN fs :
            (c # <<>> /\ stat_denied(c) /\ ~Ignored(name_of(c))
                /\ Traversed(parent_of(c))) =>
                \A sib \in Children(parent_of(c)) \ {c} :
                    (~Ignored(name_of(sib)) /\ ~stat_denied(sib)) =>
                        /\ is_file(sib) => TimesListed(Data, sib) = 1
                        /\ is_dir(sib) => HasNodeAt(Data, sib)

\* ascending, ignoring case
SortedNoCase(f) ==
    \A i \in 1..(Len(f) - 1) : ~StrLess(lower(f[i + 1]), lower(f[i]))

SubdirKeys(d) ==
    LET sub == SelectSeq(d, LAMBDA e : e.v.tag = "dict")
    IN  [i \in 1..Len(sub) |-> sub[i].k]

\* C10: every "files" list and every node's subdirectory keys are in
\* ascending case-insensitive order, and a second run on the unchanged
\* directory leaves what the first left.
C10_Ordering ==
    mode = "local" =>
        /\ Succeeded =>
              \A q \in NodePaths(Data) :
                  /\ SortedNoCase(FilesOf(NodeAt(Data, q)))
                  /\ SortedNoCase(SubdirKeys(NodeAt(Data, q)))
        /\ prevOut # NotRun => out = prevOut

=============================================================================
